---------------------------- MODULE Spec2Model ----------------------------
(***************************************************************************)
(* Multi-turn query resolution of the database chatbot: LLM (src/model.py) *)
(* driven by the interactive loop (main.py) and by the HTTP endpoint       *)
(* (main_flask.py), over the storage wrapper (src/database.py).            *)
(*                                                                         *)
(* Python strings are sequences of one-character strings, so that strip,   *)
(* upper, lower, split, join, "in" and startswith are computed as the code *)
(* computes them.  The oracle (the generative model) and the database      *)
(* server are the environment: their answers are drawn from small sets.    *)
(***************************************************************************)
EXTENDS Naturals, Sequences, FiniteSets, TLC

VARIABLES
    context,             \* LLM.context: a dict, here a function on the keys present
    history,             \* LLM.history: list of records
    is_format_response,  \* LLM.is_format_response
    connection,          \* Database.connection: "open" or "closed"
    frontend,            \* which program runs: "cli" (main.py) or "http" (main_flask.py)
    th,                  \* per front-end thread: position, user_query, response
    last                 \* observation of the last LLM call (what it called, what it returned)

vars == <<context, history, is_format_response, connection, frontend, th, last>>

-----------------------------------------------------------------------------
(* Bounds of the model *)

\* A data query turn is not started once the history holds this many records.
MaxHistory == 4

-----------------------------------------------------------------------------
(* Python str operations on sequences of characters *)

Lowers == <<"a","b","c","d","e","f","g","h","i","j","k","l","m",
            "n","o","p","q","r","s","t","u","v","w","x","y","z">>
Uppers == <<"A","B","C","D","E","F","G","H","I","J","K","L","M",
            "N","O","P","Q","R","S","T","U","V","W","X","Y","Z">>

Whitespace == {" ", "\n", "\t"}

ToUpper == [c \in {Lowers[i] : i \in 1..26} |->
               Uppers[CHOOSE i \in 1..26 : Lowers[i] = c]]

ToLower == [c \in {Uppers[i] : i \in 1..26} |->
               Lowers[CHOOSE i \in 1..26 : Uppers[i] = c]]

upper_char(c) == IF c \in DOMAIN ToUpper THEN ToUpper[c] ELSE c

lower_char(c) == IF c \in DOMAIN ToLower THEN ToLower[c] ELSE c

upper(s) == [i \in 1..Len(s) |-> upper_char(s[i])]

lower(s) == [i \in 1..Len(s) |-> lower_char(s[i])]

RECURSIVE lstrip(_)
lstrip(s) ==
    IF s # <<>> /\ Head(s) \in Whitespace THEN lstrip(Tail(s)) ELSE s

RECURSIVE rstrip(_)
rstrip(s) ==
    IF s # <<>> /\ s[Len(s)] \in Whitespace
    THEN rstrip(SubSeq(s, 1, Len(s) - 1))
    ELSE s

strip(s) == rstrip(lstrip(s))

\* sub in s
contains(sub, s) ==
    \E i \in 1..(Len(s) + 1) :
        /\ i + Len(sub) - 1 <= Len(s)
        /\ SubSeq(s, i, i + Len(sub) - 1) = sub

startswith(s, prefix) ==
    /\ Len(prefix) <= Len(s)
    /\ SubSeq(s, 1, Len(prefix)) = prefix

\* s.split(sep) for a one-character sep: always at least one piece
RECURSIVE split(_, _)
split(s, sep) ==
    IF \E i \in 1..Len(s) : s[i] = sep
    THEN LET i == CHOOSE j \in 1..Len(s) :
                      s[j] = sep /\ \A k \in 1..(j - 1) : s[k] # sep
         IN  <<SubSeq(s, 1, i - 1)>> \o split(SubSeq(s, i + 1, Len(s)), sep)
    ELSE <<s>>

\* sep.join(list)
RECURSIVE join(_, _)
join(sep, list) ==
    IF list = <<>> THEN <<>>
    ELSE IF Len(list) = 1 THEN list[1]
    ELSE list[1] \o sep \o join(sep, Tail(list))

\* bool(s) of a str
truthy(s) == s # <<>>

-----------------------------------------------------------------------------
(* String literals of the source *)

S_None        == <<"N","o","n","e">>
S_Valid       == <<"V","a","l","i","d">>
S_Table_Names == <<"T","a","b","l","e","_","N","a","m","e","s">>
S_Generic     == <<"G","e","n","e","r","i","c">>
S_Invalid     == <<"I","n","v","a","l","i","d">>
S_exit        == <<"e","x","i","t">>
S_SELECT      == <<"S","E","L","E","C","T">>
S_FROM        == <<"F","R","O","M">>
S_WHERE       == <<"W","H","E","R","E">>

\* Python None where a str is expected: no str equals it (no character is "<None>")
PyNone == <<"<None>">>
\* Python None where a list of str is expected
PyNoneList == <<PyNone>>

S_SELECT_ == <<"S","E","L","E","C","T"," ">>
S__FROM_  == <<" ","F","R","O","M"," ">>
S__WHERE_ == <<" ","W","H","E","R","E"," ">>

\* the catalog query of get_available_tables
TABLES_QUERY ==
    <<"S","E","L","E","C","T"," ","t","a","b","l","e","_","n","a","m","e",
      " ","F","R","O","M"," ","i","n","f","o","r","m","a","t","i","o","n",
      "_","s","c","h","e","m","a",".","t","a","b","l","e","s"," ","W","H",
      "E","R","E"," ","t","a","b","l","e","_","s","c","h","e","m","a"," ",
      "="," ","'","p","u","b","l","i","c","'",";">>

\* the catalog query of get_columns_for_table, around the table name
COLUMNS_QUERY_HEAD ==
    <<"S","E","L","E","C","T"," ","c","o","l","u","m","n","_","n","a","m",
      "e","\n"," "," "," "," "," "," "," "," "," "," "," "," "," "," "," ",
      " "," "," "," "," ","F","R","O","M"," ","i","n","f","o","r","m","a",
      "t","i","o","n","_","s","c","h","e","m","a",".","c","o","l","u","m",
      "n","s","\n"," "," "," "," "," "," "," "," "," "," "," "," "," "," ",
      " "," "," "," "," "," ","W","H","E","R","E"," ","t","a","b","l","e",
      "_","s","c","h","e","m","a"," ","="," ","'","p","u","b","l","i","c",
      "'","\n"," "," "," "," "," "," "," "," "," "," "," "," "," "," "," ",
      " "," "," "," "," ","A","N","D"," ","t","a","b","l","e","_","n","a",
      "m","e"," "," "," ","="," ","'">>

COLUMNS_QUERY_TAIL ==
    <<"'",";","\n"," "," "," "," "," "," "," "," "," "," "," "," "," "," ",
      " "," ">>

-----------------------------------------------------------------------------
(* Python values of mixed type are tagged records: k names the type *)

NoneVal      == [k |-> "None"]
ListVal(l)   == [k |-> "list", v |-> l]
IntVal(n)    == [k |-> "int", v |-> n]
\* a str literal of the source, kept whole
StrVal(s)    == [k |-> "str", v |-> s]
\* a str the program received or computed, character by character
TextVal(s)   == [k |-> "text", v |-> s]
\* an f-string: the literal with {} for each interpolated value, and the values
FStr(fmt, a) == [k |-> "fstr", lit |-> fmt, v |-> a]

-----------------------------------------------------------------------------
(* src/database.py *)

\* Database.connect: @retry(stop=stop_after_attempt(3), wait=wait_fixed(2))
ConnectAttempts == 3

\* Database.is_connection_alive: the probe "SELECT 1" succeeds on an open
\* connection, or fails and psycopg2.connect is called once (not the retrying
\* connect), which succeeds or fails.  attempts counts the calls of
\* psycopg2.connect.
is_connection_alive(conn) ==
    (IF conn = "open"
     THEN {[alive |-> TRUE, attempts |-> 0, connection |-> conn]} ELSE {})
    \cup {[alive |-> TRUE, attempts |-> 1, connection |-> "open"]}
    \cup {[alive |-> FALSE, attempts |-> 1, connection |-> conn]}

\* Database.fetch_results: cursor.fetchall(), or None if it raises
fetch_results(rowsets) == {ListVal(r) : r \in rowsets} \cup {NoneVal}

\* Database.execute_query: the set of its possible outcomes, each the value
\* returned and the connection afterwards.  rowsets and rowcounts are what the
\* server may answer to this query.  gave_up is empty, or holds the number of
\* connection attempts after which None was returned for a connection that
\* is not alive.
execute_query(conn, query, rowsets, rowcounts) ==
    LET alive == is_connection_alive(conn)
        ran(c) ==
            IF startswith(upper(strip(query)), S_SELECT)
            THEN {[result |-> r, connection |-> c, gave_up |-> <<>>] :
                    r \in fetch_results(rowsets)}
            ELSE {[result |-> IntVal(n), connection |-> c, gave_up |-> <<>>] :
                    n \in rowcounts}
    IN  {[result |-> NoneVal, connection |-> a.connection,
          gave_up |-> <<a.attempts>>] : a \in {b \in alive : ~b.alive}}
        \cup {[result |-> NoneVal, connection |-> a.connection,
                gave_up |-> <<>>] : a \in {b \in alive : b.alive}}
        \cup UNION {ran(a.connection) : a \in {b \in alive : b.alive}}

\* Database.close
close(conn) == "closed"

-----------------------------------------------------------------------------
(* The environment: what the oracle and the database server may answer *)

\* an oracle completion: generate_content raises, or response.text is text
OracleRaise   == [raise |-> TRUE, text |-> <<>>]
OracleText(t) == [raise |-> FALSE, text |-> t]
Oracle(texts) == {OracleText(t) : t \in texts} \cup {OracleRaise}

T_t == <<"t">>
T_u == <<"u">>
Col_a == <<"a">>
Col_b == <<"b">>

\* a row of one value, as the catalog queries return them
Row(v) == <<v>>

ClassifyTexts ==
    {S_Valid \o <<"\n">>, S_Table_Names, S_Generic, <<>>, <<"S","u","r","e">>}
GenericTexts   == {<<"H","i","\n">>}
TableTexts     == {S_None, <<>>, T_t, T_u \o <<"\n">>}
ColumnTexts    == {<<>>, <<"*">>, <<"a",","," ","b">>}
ConditionTexts == {<<>>, <<"1","=","1">>}
ChunkSeqs      == {<<>>, << <<"O">>, <<"K">> >>}

\* DELETE FROM t;
SQL_DELETE_ALL ==
    <<"D","E","L","E","T","E"," ","F","R","O","M"," ","t",";">>
\* delete from t where a in (select 1);
SQL_DELETE_IN ==
    <<"d","e","l","e","t","e"," ","f","r","o","m"," ","t"," ","w","h","e",
      "r","e"," ","a"," ","i","n"," ","(","s","e","l","e","c","t"," ","1",
      ")",";">>

\* the oracle returns the statement it was shown as is, a statement of its
\* own, or 'None'
SqlTexts(sql_query) == {sql_query, S_None, SQL_DELETE_ALL, SQL_DELETE_IN}

TableRowSets  == {<<Row(T_t)>>}
ColumnRowSets == {<<Row(Col_a), Row(Col_b)>>}
DataRowSets   == {<<>>, <<Row(1)>>}
RowCounts     == {1}

Utterances == {<<>>, <<" ">>, <<"q">>, <<"E","x","i","t">>}

-----------------------------------------------------------------------------
(* src/utils.py *)

validate_input(user_input) == strip(user_input) # <<>>

handle_error(error_message) == FStr("Error: {}", <<error_message>>)

-----------------------------------------------------------------------------
(* src/model.py: the parts of LLM that compute a value *)

\* a dict of the keys present
EmptyDict == [key \in {} |-> <<>>]
SetItem(d, key, v) ==
    [x \in DOMAIN d \cup {key} |-> IF x = key THEN v ELSE d[x]]
\* d.get(key) that finds no key
Get_absent(d, key) == PyNone

\* d.get(key) of a dict whose values are str
Get(d, key) == IF key \in DOMAIN d THEN d[key] ELSE PyNone

\* [x for row in result for x in row]
RECURSIVE Flatten(_)
Flatten(rows) ==
    IF rows = <<>> THEN <<>> ELSE Head(rows) \o Flatten(Tail(rows))

\* clear_history_context that forgets the table only
clear_history_context_drops_table(ctx, hist) ==
    [context |-> [key \in DOMAIN ctx \ {"table"} |-> ctx[key]],
     history |-> <<>>]

\* clear_history_context without self.context.clear()
clear_history_context_keeps_context(ctx, hist) ==
    [context |-> ctx, history |-> <<>>]

\* clear_history_context without self.history.clear()
clear_history_context_keeps_history(ctx, hist) ==
    [context |-> EmptyDict, history |-> hist]

\* LLM.clear_history_context
clear_history_context(ctx, hist) == [context |-> EmptyDict, history |-> <<>>]

\* check_user_query taking 'Generic' for 'Valid'
check_user_query_generic_as_valid(answer) ==
    IF answer.raise THEN S_Invalid
    ELSE IF strip(answer.text) = S_Generic THEN S_Valid ELSE strip(answer.text)

\* LLM.check_user_query
check_user_query(answer) ==
    IF answer.raise THEN S_Invalid ELSE strip(answer.text)

\* LLM.get_available_tables and LLM.get_columns_for_table, given what
\* execute_query returned: iterating None or an int raises, which is caught
rows_or_empty(result) ==
    IF result.k = "list" THEN Flatten(result.v) ELSE <<>>

get_available_tables(conn) ==
    {[value |-> rows_or_empty(o.result), connection |-> o.connection,
      gave_up |-> o.gave_up] :
        o \in execute_query(conn, TABLES_QUERY, TableRowSets, RowCounts)}

get_columns_for_table(conn, table_name) ==
    {[value |-> rows_or_empty(o.result), connection |-> o.connection,
      gave_up |-> o.gave_up] :
        o \in execute_query(conn,
                 COLUMNS_QUERY_HEAD \o table_name \o COLUMNS_QUERY_TAIL,
                 ColumnRowSets, RowCounts)}

\* LLM.match_table_name, given response.text
match_table_name(text) == IF strip(text) # S_None THEN strip(text) ELSE PyNone

\* LLM.match_columns, given response.text
match_columns(text) == split(strip(text), ",")

\* LLM.extract_conditions, given response.text
extract_conditions(text) == strip(text)

\* LLM.ask_for_clarification: the text and the record appended
clarification_text(field, available_data) ==
    IF field = "table"
    THEN FStr("I couldn't understand the table you are referring to. Here are the available tables: {}. Could you please specify the table?",
              <<available_data>>)
    ELSE IF field = "columns"
    THEN FStr("I couldn't identify the columns you are referring to. Available columns: {}. Please specify.",
              <<available_data>>)
    ELSE StrVal("I couldn't identify the conditions for your query. Could you clarify?")

\* ask_for_clarification without self.history.append(...)
ask_for_clarification_no_record(hist, field, available_data) ==
    [history |-> hist, value |-> clarification_text(field, available_data)]

ask_for_clarification(hist, field, available_data) ==
    [history |-> Append(hist, [type |-> "clarification", field |-> field,
                               value |-> clarification_text(field, available_data)]),
     value |-> clarification_text(field, available_data)]

\* LLM.generate_sql_query: the statement built from the context and shown
\* to the oracle
naive_sql(ctx) ==
    S_SELECT_ \o join(<<",", " ">>, ctx["columns"]) \o S__FROM_ \o ctx["table"]
        \o S__WHERE_ \o ctx["conditions"] \o <<";">>

\* LLM.generate_sql_query, given response.text
generate_sql_query(text) == IF strip(text) # S_None THEN strip(text) ELSE PyNone

\* is_valid_sql with "or" for "and"
is_valid_sql_either(sql_query) ==
    contains(S_SELECT, upper(sql_query)) \/ contains(S_FROM, upper(sql_query))

\* LLM.is_valid_sql
is_valid_sql(sql_query) ==
    contains(S_SELECT, upper(sql_query)) /\ contains(S_FROM, upper(sql_query))

\* LLM.execute_sql_query, given what execute_query returned
execute_sql_query(results) ==
    IF results.k = "None" THEN NoneVal
    ELSE IF results.k = "list" THEN results
    ELSE FStr("Query executed successfully, {} rows affected.", <<results.v>>)

MSG_INVALID == StrVal("I'm sorry, I couldn't generate the response for your query. Please try later. thank you.")
MSG_SQL_NONE == StrVal("The SQL query could not be generated. Please start your query with more information.")
MSG_SQL_INVALID == StrVal("The generated SQL query is not valid. Please provide more information to generate a valid SQL query.")
MSG_NO_RESULTS == StrVal("No results found.")

-----------------------------------------------------------------------------
(* What is observed of the turn in progress: the context when             *)
(* process_user_query was called (before), the oracle and storage calls it *)
(* made, in order (calls), what match_table_name and generate_sql_query    *)
(* returned if called (matched, sql: empty or one value), the statements   *)
(* handed to the executor (executed), how the call ended (outcome), the    *)
(* table list it fetched (tables), and what the front end did with the     *)
(* response (format).  Further: the classification the oracle gave,        *)
(* stripped, if it gave one (status), the column list                      *)
(* get_columns_for_table returned (found), what match_columns and          *)
(* extract_conditions returned (columns, conditions), each empty or one    *)
(* value, and for the latest storage call that returned None on a dead     *)
(* connection the connection attempts it made (gave_up).                   *)

NoCall ==
    [op |-> "none", before |-> EmptyDict, calls |-> <<>>, matched |-> <<>>,
     sql |-> <<>>, executed |-> <<>>, outcome |-> "none", tables |-> <<>>,
     format |-> "none", status |-> <<>>, found |-> <<>>, columns |-> <<>>,
     conditions |-> <<>>, gave_up |-> <<>>]

Called(obs, site) == [obs EXCEPT !.calls = Append(@, site)]

\* a storage call that returned o was made at site
CalledDb(obs, site, o) ==
    [Called(obs, site) EXCEPT
        !.gave_up = IF o.gave_up # <<>> THEN o.gave_up ELSE @]

Ended(obs, outcome) == [obs EXCEPT !.outcome = outcome]

EndedWith(obs, outcome, tables) ==
    [obs EXCEPT !.outcome = outcome, !.tables = tables]

-----------------------------------------------------------------------------
(* src/model.py: LLM.process_user_query, as the front end's thread w runs  *)
(* it.  The call ends by returning a value or by raising; what it wrote to *)
(* the LLM object before either stays written.                             *)

\* A front-end thread between turns.  once tells what the thread is: the
\* interactive loop, or the succession of requests served one after the
\* other (FALSE), or the thread the server starts for one request, which
\* ends with it (TRUE).
\* stream and shown are of format_response: the fragments it consumed and
\* the fragments it printed, in order.
Idle ==
    [pc |-> "input", user_query |-> <<>>, response |-> NoneVal,
     response_text |-> NoneVal, once |-> FALSE, stream |-> <<>>,
     shown |-> <<>>]

RequestThread == [Idle EXCEPT !.once = TRUE]

\* thread w has finished with its turn
Rest(w) == IF th[w].once THEN [RequestThread EXCEPT !.pc = "done"] ELSE Idle

\* What is observed is the turn of the thread that runs alone; of threads
\* that run side by side no turn is observed.
Observed(w, obs) == IF th[w].once THEN NoCall ELSE obs

\* the call returns ret to the front end (which uses user_query afterwards
\* only for its conversation log, left out here)
Return(w, ctx, hist, flag, conn, ret, obs) ==
    /\ context' = ctx
    /\ history' = hist
    /\ is_format_response' = flag
    /\ connection' = conn
    /\ th' = [th EXCEPT ![w] = [@ EXCEPT !.pc = "respond", !.user_query = <<>>,
                                         !.response = ret]]
    /\ last' = Observed(w, obs)
    /\ UNCHANGED frontend

\* the call raises.  main.py has no handler: the process ends ("crashed",
\* from where nothing runs).  Flask answers 500 and goes on serving with
\* what the call had written.
Raised(w, ctx, hist, flag, conn, obs) ==
    /\ context' = ctx
    /\ history' = hist
    /\ is_format_response' = flag
    /\ connection' = conn
    /\ th' = [th EXCEPT ![w] =
                IF frontend = "cli" THEN [Idle EXCEPT !.pc = "crashed"]
                ELSE Rest(w)]
    /\ last' = Observed(w, Ended(obs, "raised"))
    /\ UNCHANGED frontend

\* handle_database_query, "Execute SQL query"
ExecuteSql(w, ctx, hist, conn, sql_query, obs) ==
    \E o \in execute_query(conn, sql_query, DataRowSets, RowCounts) :
        LET results == execute_sql_query(o.result)
            obs1 == [CalledDb(obs, "execute_sql_query", o) EXCEPT
                        !.executed = Append(@, sql_query)]
            c == clear_history_context(ctx, hist)
        IN  IF results.k = "None"
            THEN Return(w, c.context, c.history, is_format_response,
                        o.connection, MSG_NO_RESULTS, Ended(obs1, "no_results"))
            ELSE Return(w, ctx, hist, TRUE, o.connection, results,
                        Ended(obs1, "results"))

\* handle_database_query, "Generate SQL query" and "Validate the SQL query"
SynthesizeSql(w, ctx, hist, conn, obs) ==
    \E a \in Oracle(SqlTexts(naive_sql(ctx))) :
        LET sql_query == generate_sql_query(a.text)
            obs1 == [Called(obs, "generate_sql_query") EXCEPT
                        !.sql = IF a.raise THEN <<>> ELSE <<sql_query>>]
            c == clear_history_context(ctx, hist)
        IN  IF a.raise
            THEN Raised(w, ctx, hist, is_format_response, conn, obs1)
            ELSE IF sql_query = PyNone
            THEN Return(w, c.context, c.history, is_format_response, conn,
                        MSG_SQL_NONE, Ended(obs1, "sql_none"))
            ELSE IF ~is_valid_sql(sql_query)
            THEN Return(w, c.context, c.history, is_format_response, conn,
                        MSG_SQL_INVALID, Ended(obs1, "sql_invalid"))
            ELSE ExecuteSql(w, ctx, hist, conn, sql_query, obs1)

\* handle_database_query, "Step 3: Handle conditions"
ResolveConditions(w, ctx, hist, conn, obs) ==
    IF "conditions" \in DOMAIN ctx
    THEN SynthesizeSql(w, ctx, hist, conn, obs)
    ELSE \E a \in Oracle(ConditionTexts) :
        LET conditions == extract_conditions(a.text)
            obs1 == [Called(obs, "extract_conditions") EXCEPT
                        !.conditions = IF a.raise THEN <<>> ELSE <<conditions>>]
            q == ask_for_clarification(hist, "conditions", <<>>)
        IN  IF a.raise
            THEN Raised(w, ctx, hist, is_format_response, conn, obs1)
            ELSE IF conditions = PyNone
            THEN Return(w, ctx, q.history, is_format_response, conn, q.value,
                        Ended(obs1, "clar_conditions"))
            ELSE SynthesizeSql(w, SetItem(ctx, "conditions", conditions),
                               hist, conn, obs1)

\* handle_database_query, "Step 2: Handle columns"
ResolveColumns(w, ctx, hist, conn, user_query, obs) ==
    IF "columns" \in DOMAIN ctx
    THEN ResolveConditions(w, ctx, hist, conn, obs)
    ELSE \E g \in get_columns_for_table(conn, ctx["table"]) :
         \E a \in Oracle(ColumnTexts) :
        LET available_columns == g.value
            columns == match_columns(a.text)
            obs1 == [Called(CalledDb(obs, "get_columns_for_table", g),
                            "match_columns") EXCEPT
                        !.found = <<available_columns>>,
                        !.columns = IF a.raise THEN <<>> ELSE <<columns>>]
            q == ask_for_clarification(hist, "columns", available_columns)
        IN  IF a.raise
            THEN Raised(w, ctx, hist, is_format_response, g.connection, obs1)
            ELSE IF columns = PyNoneList
            THEN Return(w, ctx, q.history, is_format_response, g.connection,
                        q.value, Ended(obs1, "clar_columns"))
            ELSE ResolveConditions(w, SetItem(ctx, "columns", columns), hist,
                                   g.connection, obs1)

\* LLM.handle_database_query, from its start: the user record, "Step 1:
\* Determine if a new table is mentioned", then the steps above
handle_database_query(w, user_query, obs) ==
    LET hist1 == Append(history, [type |-> "user", value |-> user_query])
    IN  \E g \in get_available_tables(connection) :
        \E a \in Oracle(TableTexts) :
        LET available_tables == g.value
            table_name == match_table_name(a.text)
            obs1 == [Called(CalledDb(obs, "get_available_tables", g),
                            "match_table_name") EXCEPT
                        !.tables = available_tables,
                        !.matched = IF a.raise THEN <<>> ELSE <<table_name>>]
            c == clear_history_context(context, hist1)
            q == ask_for_clarification(hist1, "table", available_tables)
        IN  IF a.raise
            THEN Raised(w, context, hist1, is_format_response, g.connection, obs1)
            ELSE IF table_name # PyNone /\ truthy(table_name)
            THEN IF Get(context, "table") # table_name
                 THEN ResolveColumns(w, SetItem(c.context, "table", table_name),
                                     c.history, g.connection, user_query, obs1)
                 ELSE ResolveColumns(w, context, hist1, g.connection,
                                     user_query, obs1)
            ELSE Return(w, context, q.history, is_format_response,
                        g.connection, q.value,
                        EndedWith(obs1, "clar_table", available_tables))

\* LLM.process_user_query
ProcessUserQuery(w) ==
    /\ th[w].pc = "process"
    /\ \E cls \in Oracle(ClassifyTexts) :
        LET user_query == th[w].user_query
            status == check_user_query(cls)
            obs == [Called(NoCall, "check_user_query") EXCEPT
                       !.op = "process_user_query", !.before = context,
                       !.status = IF cls.raise THEN <<>>
                                  ELSE <<strip(cls.text)>>]
        IN  IF status = S_Table_Names
            THEN \E g \in get_available_tables(connection) :
                LET c == clear_history_context(context, history)
                    obs1 == CalledDb(obs, "get_available_tables", g)
                IN  Return(w, c.context, c.history, is_format_response,
                           g.connection, FStr("Available tables: {}", <<g.value>>),
                           EndedWith(obs1, "table_names", g.value))
            ELSE IF status = S_Invalid
            THEN Return(w, context, history, is_format_response, connection,
                        MSG_INVALID, Ended(obs, "invalid"))
            ELSE IF status = S_Valid
            THEN /\ Len(history) + 2 <= MaxHistory
                 /\ handle_database_query(w, user_query, obs)
            ELSE IF status = S_Generic
            THEN \E a \in Oracle(GenericTexts) :
                IF a.raise
                THEN Raised(w, context, history, is_format_response, connection,
                            Called(obs, "generate_content"))
                ELSE Return(w, context, history, is_format_response, connection,
                            TextVal(strip(a.text)),
                            Ended(Called(obs, "generate_content"), "generic"))
            ELSE \* no branch matches: the method falls off its end
                 Return(w, context, history, is_format_response, connection,
                        NoneVal, Ended(obs, "fell_through"))

-----------------------------------------------------------------------------
(* src/model.py: LLM.format_response, as the front end's thread w runs it  *)

\* Concatenate putting each chunk in front: result = chunk.text + result
RECURSIVE Concatenate_in_front(_, _)
Concatenate_in_front(result, chunks) ==
    IF chunks = <<>> THEN result
    ELSE Concatenate_in_front(Head(chunks) \o result, Tail(chunks))

\* the streamed completion, consumed chunk by chunk: result += chunk.text
RECURSIVE Concatenate(_, _)
Concatenate(result, chunks) ==
    IF chunks = <<>> THEN result
    ELSE Concatenate(result \o Head(chunks), Tail(chunks))

\* the same loop: print(chunk.text, end="")
RECURSIVE Printed(_, _)
Printed(shown, chunks) ==
    IF chunks = <<>> THEN shown
    ELSE Printed(Append(shown, Head(chunks)), Tail(chunks))

FormatRaised(w, conn) ==
    /\ th' = [th EXCEPT ![w] =
                IF frontend = "cli" THEN [Idle EXCEPT !.pc = "crashed"]
                ELSE Rest(w)]
    /\ connection' = conn
    /\ last' = Observed(w, [last EXCEPT !.format = "raised"])
    /\ UNCHANGED <<context, history, is_format_response, frontend>>

\* the front end found is_format_response set and calls format_response
FormatResponse(w) ==
    /\ th[w].pc = "respond"
    /\ is_format_response
    /\ IF "table" \notin DOMAIN context
       THEN \* self.context["table"] raises KeyError
            FormatRaised(w, connection)
       ELSE \E g \in get_columns_for_table(connection, context["table"]) :
            \E a \in {OracleRaise} \cup {[raise |-> FALSE, text |-> c] : c \in ChunkSeqs} :
                IF a.raise
                THEN FormatRaised(w, g.connection)
                ELSE /\ th' = [th EXCEPT ![w] = [@ EXCEPT
                                  !.pc = "hint",
                                  !.response_text =
                                      TextVal(Concatenate(<<>>, a.text)),
                                  !.stream = a.text,
                                  !.shown = Printed(<<>>, a.text)]]
                     /\ connection' = g.connection
                     /\ last' = Observed(w, [last EXCEPT
                                                !.format = "formatted"])
                     /\ UNCHANGED <<context, history, is_format_response,
                                    frontend>>

-----------------------------------------------------------------------------
(* src/main.py (the interactive loop) and src/main_flask.py (POST /chat)   *)

\* main.py: input(), then the 'exit' test
CliInput(w) ==
    /\ frontend = "cli"
    /\ th[w].pc = "input"
    /\ \E user_query \in Utterances :
        IF lower(user_query) = S_exit
        THEN /\ context' = clear_history_context(context, history).context
             /\ history' = clear_history_context(context, history).history
             /\ connection' = close(connection)
             /\ th' = [th EXCEPT ![w] = [Idle EXCEPT !.pc = "done"]]
             /\ last' = Observed(w, [NoCall EXCEPT !.op = "exit"])
             /\ UNCHANGED <<is_format_response, frontend>>
        ELSE /\ th' = [th EXCEPT ![w] = [@ EXCEPT !.pc = "process",
                                           !.user_query = user_query]]
             /\ last' = NoCall
             /\ UNCHANGED <<context, history, is_format_response, connection,
                            frontend>>

\* main_flask.py: a POST to /chat, up to the call of process_user_query
HttpRequest(w) ==
    /\ frontend = "http"
    /\ th[w].pc = "input"
    /\ \E user_query \in Utterances :
        IF ~truthy(user_query)
        THEN \* 400, "No query provided"
             /\ th' = [th EXCEPT ![w] = Rest(w)]
             /\ last' = Observed(w, [NoCall EXCEPT !.op = "bad_request"])
             /\ UNCHANGED <<context, history, is_format_response, connection,
                            frontend>>
        ELSE IF lower(user_query) = S_exit
        THEN /\ context' = clear_history_context(context, history).context
             /\ history' = clear_history_context(context, history).history
             /\ connection' = close(connection)
             /\ th' = [th EXCEPT ![w] = Rest(w)]
             /\ last' = Observed(w, [NoCall EXCEPT !.op = "exit"])
             /\ UNCHANGED <<is_format_response, frontend>>
        ELSE /\ th' = [th EXCEPT ![w] = [@ EXCEPT !.pc = "process",
                                           !.user_query = user_query]]
             /\ last' = NoCall
             /\ UNCHANGED <<context, history, is_format_response, connection,
                            frontend>>

\* both front ends: is_format_response is not set, the response goes out as is
PlainResponse(w) ==
    /\ th[w].pc = "respond"
    /\ ~is_format_response
    /\ th' = [th EXCEPT ![w] = [@ EXCEPT !.pc = "hint",
                                         !.response_text = th[w].response]]
    /\ last' = Observed(w, [last EXCEPT !.format = "plain"])
    /\ UNCHANGED <<context, history, is_format_response, connection, frontend>>

\* both front ends: the hint is read from the context, and the turn is over
Hint(w) ==
    /\ th[w].pc = "hint"
    /\ th' = [th EXCEPT ![w] = Rest(w)]
    /\ UNCHANGED <<context, history, is_format_response, connection, frontend,
                   last>>

-----------------------------------------------------------------------------
(* The program *)

Init ==
    /\ context = EmptyDict
    /\ history = <<>>
    /\ is_format_response = FALSE
    /\ connection = "open"
    /\ frontend \in {"cli", "http"}
    /\ th = [w \in {1} |-> Idle]
    /\ last = NoCall

CliInputStep         == \E w \in DOMAIN th : CliInput(w)
HttpRequestStep      == \E w \in DOMAIN th : HttpRequest(w)
ProcessUserQueryStep == \E w \in DOMAIN th : ProcessUserQuery(w)
FormatResponseStep   == \E w \in DOMAIN th : FormatResponse(w)
PlainResponseStep    == \E w \in DOMAIN th : PlainResponse(w)
HintStep             == \E w \in DOMAIN th : Hint(w)

Next ==
    \/ CliInputStep
    \/ HttpRequestStep
    \/ ProcessUserQueryStep
    \/ FormatResponseStep
    \/ PlainResponseStep
    \/ HintStep

Spec == Init /\ [][Next]_vars

\* main_flask.py under app.run: the development server handles each request
\* in a thread of its own, and llm, db are module globals shared by them.
\* Workers requests arrive, and can be in flight at once.
Workers == 2

InitHttp ==
    /\ context = EmptyDict
    /\ history = <<>>
    /\ is_format_response = FALSE
    /\ connection = "open"
    /\ frontend = "http"
    /\ th = [w \in 1..Workers |-> RequestThread]
    /\ last = NoCall

NextHttp ==
    \/ HttpRequestStep
    \/ ProcessUserQueryStep
    \/ FormatResponseStep
    \/ PlainResponseStep
    \/ HintStep

SpecHttp == InitHttp /\ [][NextHttp]_vars

-----------------------------------------------------------------------------
(* Vocabulary of the properties *)

\* the shape is_valid_sql is documented to accept: SELECT and FROM, in any case
HasSelectAndFrom(stmt) ==
    /\ \E i \in 1..Len(stmt) : i + 5 <= Len(stmt)
          /\ upper(SubSeq(stmt, i, i + 5)) = S_SELECT
    /\ \E i \in 1..Len(stmt) : i + 3 <= Len(stmt)
          /\ upper(SubSeq(stmt, i, i + 3)) = S_FROM

\* every call of site b is preceded by a call of site a
Precedes(calls, a, b) ==
    \A i \in 1..Len(calls) :
        calls[i] = b => \E j \in 1..(i - 1) : calls[j] = a

MadeCall(calls, site) == \E i \in 1..Len(calls) : calls[i] = site

SlotSites ==
    {"get_columns_for_table", "match_columns", "extract_conditions",
     "generate_sql_query", "execute_sql_query"}

\* match_table_name returned a table name / returned None or an empty answer
MatchedATable == last.matched # <<>> /\ last.matched[1] # PyNone
                    /\ truthy(last.matched[1])
MatchedNoTable == last.matched # <<>>
                    /\ (last.matched[1] = PyNone \/ ~truthy(last.matched[1]))

\* the call of process_user_query observed in last matched a table other
\* than the one the context held
TableSwitched == MatchedATable /\ last.matched[1] # Get(last.before, "table")

FullKeys == {"table", "columns", "conditions"}

-----------------------------------------------------------------------------
(* C1 *)

\* C1: once the front end has finished a data query turn that succeeded end
\* to end (a result was returned and format_response ran), the context holds
\* no table, columns or conditions and the history is empty.
C1_SuccessLeavesSessionEmpty ==
    \A w \in DOMAIN th :
        (th[w].pc = "input" /\ last.outcome = "results"
            /\ last.format = "formatted")
        => (DOMAIN context = {} /\ history = <<>>)

-----------------------------------------------------------------------------
(* C2 *)

\* C2: in every call the table is matched before any other slot is touched;
\* and when the matched table differs from the one the context held at the
\* call, no user record of the history survives, columns and conditions are
\* in the context only if this call resolved them, and a statement is
\* synthesized only from columns and conditions this call resolved, for the
\* matched table.
C2_TableSwitchResetsSlots ==
    last.op = "process_user_query" =>
        /\ \A site \in SlotSites : Precedes(last.calls, "match_table_name", site)
        /\ TableSwitched =>
            /\ \A i \in 1..Len(history) : history[i].type # "user"
            /\ "columns" \in DOMAIN context => MadeCall(last.calls, "match_columns")
            /\ "conditions" \in DOMAIN context
                   => MadeCall(last.calls, "extract_conditions")
            /\ Precedes(last.calls, "match_columns", "generate_sql_query")
            /\ Precedes(last.calls, "extract_conditions", "generate_sql_query")
            /\ last.outcome = "results" =>
                   /\ DOMAIN context = FullKeys
                   /\ context["table"] = last.matched[1]

\* a table switch away from a fully resolved context ended in an executed
\* statement
C2_Witness ==
    /\ last.outcome = "results"
    /\ DOMAIN last.before = FullKeys
    /\ last.before["table"] = T_t
    /\ last.matched = <<T_u>>
    /\ last.executed # <<>>

-----------------------------------------------------------------------------
(* C3 *)

\* C3: a call in which match_table_name finds no table returns the table
\* clarification text built from the table list fetched in that call, appends
\* the user record and one clarification record of field 'table' to the
\* history, makes no call after match_table_name, executes nothing and leaves
\* the context as it was.
C3_NoTableMatchClarifies ==
    [][\A w \in DOMAIN th :
        (th[w].pc = "process" /\ th'[w].pc # "process" /\ last'.matched # <<>>
            /\ (last'.matched[1] = PyNone \/ ~truthy(last'.matched[1])))
        => /\ th'[w].pc = "respond"
           /\ th'[w].response.k = "fstr"
           /\ th'[w].response.lit = "I couldn't understand the table you are referring to. Here are the available tables: {}. Could you please specify the table?"
           /\ th'[w].response.v = <<last'.tables>>
           /\ history' = history \o
                <<[type |-> "user", value |-> th[w].user_query],
                  [type |-> "clarification", field |-> "table",
                   value |-> th'[w].response]>>
           /\ last'.calls = <<"check_user_query", "get_available_tables",
                              "match_table_name">>
           /\ last'.executed = <<>>
           /\ context' = context]_vars

\* the oracle answered 'None' with no table in the context; the clarification
\* lists the one table the catalog returned
C3_Witness ==
    \E w \in DOMAIN th :
        /\ th[w].pc = "respond"
        /\ last.matched = <<PyNone>>
        /\ last.tables = <<T_t>>
        /\ DOMAIN context = {}
        /\ Len(history) = 2

-----------------------------------------------------------------------------
(* C4 *)

\* C4: when a turn fails table matching right after a turn that failed it
\* for the same utterance and the same table list, the two clarification
\* prompts are identical and the context holds no table, columns or
\* conditions.
C4_RepeatedFailureIsIdempotent ==
    \A w \in DOMAIN th :
        (/\ th[w].pc = "respond"
         /\ MatchedNoTable
         /\ Len(history) >= 4
         /\ history[Len(history) - 2].type = "clarification"
         /\ history[Len(history) - 2].field = "table"
         /\ history[Len(history) - 2].value.v = <<last.tables>>
         /\ history[Len(history) - 3].type = "user"
         /\ history[Len(history) - 3].value = history[Len(history) - 1].value)
        => /\ th[w].response = history[Len(history) - 2].value
           /\ DOMAIN context = {}

-----------------------------------------------------------------------------
(* C5 *)

MSG_INVALID_INPUT == handle_error("Invalid input. Please enter a valid query.")

\* C5: for an empty or whitespace-only utterance the call the front end
\* makes returns the fixed invalid-input message, calls neither the oracle
\* nor the storage layer, and leaves the context and the history unchanged.
C5_BlankUtteranceRejected ==
    [][\A w \in DOMAIN th :
        (th[w].pc = "process" /\ th'[w].pc # "process"
            /\ ~validate_input(th[w].user_query))
        => /\ th'[w].pc = "respond"
           /\ th'[w].response = MSG_INVALID_INPUT
           /\ last'.calls = <<>>
           /\ context' = context
           /\ history' = history]_vars

-----------------------------------------------------------------------------
(* C6 *)

\* C6: neither process_user_query nor the format_response step that follows
\* it raises.
C6_NothingRaises == last.outcome # "raised" /\ last.format # "raised"

-----------------------------------------------------------------------------
(* C7 *)

\* C7: whenever classification fails (check_user_query caught an exception,
\* or the completion is none of 'Table_Names', 'Valid', 'Generic'), the call
\* returns the fixed apology string and the context is as it was.
C7_ClassificationFailureApologizes ==
    \A w \in DOMAIN th :
        (th[w].pc = "respond" /\ last.outcome \in {"invalid", "fell_through"})
        => /\ th[w].response = MSG_INVALID
           /\ context = last.before

-----------------------------------------------------------------------------
(* C8 *)

\* C8: every statement handed to the executor is the value generate_sql_query
\* returned in that call, is not None nor the text 'None', and contains both
\* SELECT and FROM in some letter case; the executor is called only after
\* generate_sql_query.
C8_OnlyShapedStatementsExecuted ==
    /\ Precedes(last.calls, "generate_sql_query", "execute_sql_query")
    /\ MadeCall(last.calls, "execute_sql_query") <=> last.executed # <<>>
    /\ \A i \in 1..Len(last.executed) :
        /\ last.sql = <<last.executed[i]>>
        /\ last.executed[i] # PyNone
        /\ last.executed[i] # S_None
        /\ HasSelectAndFrom(last.executed[i])

\* SELECT * FROM t WHERE 1=1;
SQL_STAR_T ==
    <<"S","E","L","E","C","T"," ","*"," ","F","R","O","M"," ","t"," ",
      "W","H","E","R","E"," ","1","=","1",";">>

\* the slot set {table t, columns *, conditions 1=1} was executed
C8_Witness ==
    /\ context = [table |-> T_t, columns |-> <<<<"*">>>>,
                  conditions |-> <<"1","=","1">>]
    /\ last.executed = <<SQL_STAR_T>>

-----------------------------------------------------------------------------
(* C9 *)

\* C9: when generate_sql_query returns None, or a statement without SELECT
\* and FROM, the context and the history are empty afterwards, the response
\* is the fixed message for that failure, and the executor is not called.
C9_SynthesisFailureResets ==
    \A w \in DOMAIN th :
        (/\ th[w].pc = "respond"
         /\ last.sql # <<>>
         /\ (last.sql[1] = PyNone \/ ~HasSelectAndFrom(last.sql[1])))
        => /\ context = EmptyDict
           /\ history = <<>>
           /\ th[w].response =
                IF last.sql[1] = PyNone THEN MSG_SQL_NONE ELSE MSG_SQL_INVALID
           /\ last.executed = <<>>
           /\ ~MadeCall(last.calls, "execute_sql_query")

\* the oracle answered 'None' for a context that was already resolved, with
\* the user record of this turn in the history when it did
C9_Witness ==
    \E w \in DOMAIN th :
        /\ th[w].pc = "respond"
        /\ last.sql = <<PyNone>>
        /\ DOMAIN last.before = FullKeys
        /\ ~TableSwitched

\* the oracle answered a statement that fails the shape check
C9_WitnessShape ==
    \E w \in DOMAIN th :
        /\ th[w].pc = "respond"
        /\ last.sql = <<SQL_DELETE_ALL>>

-----------------------------------------------------------------------------
(* C10 *)

\* C10: when the executor returns None for the synthesized statement, the
\* response is 'No results found.', the context and the history are empty,
\* the statement was executed once, and is_format_response is not set.
C10_ExecutionFailureResets ==
    \A w \in DOMAIN th :
        (th[w].pc = "respond" /\ last.outcome = "no_results")
        => /\ th[w].response = MSG_NO_RESULTS
           /\ context = EmptyDict
           /\ history = <<>>
           /\ Len(last.executed) = 1
           /\ ~is_format_response

-----------------------------------------------------------------------------
(* C11 *)

\* match_columns was called and the oracle's answer was empty: [""] after
\* strip().split(",")
EmptyColumnsAnswer == last.columns # <<>> /\ last.columns[1] = << <<>> >>

\* C11: a call in which the columns were unresolved and the oracle's
\* column-matching answer is empty returns the columns clarification listing
\* the available columns, appends it to the history, keeps the table and
\* stores neither columns nor conditions, and synthesizes and executes
\* nothing.
C11_EmptyColumnsAnswerClarifies ==
    \A w \in DOMAIN th :
        (th[w].pc = "respond" /\ EmptyColumnsAnswer)
        => /\ last.outcome = "clar_columns"
           /\ th[w].response = clarification_text("columns", last.found[1])
           /\ history # <<>>
           /\ history[Len(history)] =
                [type |-> "clarification", field |-> "columns",
                 value |-> th[w].response]
           /\ DOMAIN context = {"table"}
           /\ ~MadeCall(last.calls, "generate_sql_query")
           /\ last.executed = <<>>

-----------------------------------------------------------------------------
(* C12 *)

\* extract_conditions was called and what it returned is None or empty
EmptyConditionsAnswer ==
    /\ last.conditions # <<>>
    /\ (last.conditions[1] = PyNone \/ ~truthy(last.conditions[1]))

\* C12: a call in which the conditions were unresolved and the oracle's
\* condition-extraction answer is null or empty returns the conditions
\* clarification, stores no conditions value, and synthesizes and executes
\* nothing; and a conditions value held in the context is never null or
\* empty.
C12_EmptyConditionsAnswerClarifies ==
    /\ \A w \in DOMAIN th :
        (th[w].pc = "respond" /\ EmptyConditionsAnswer)
        => /\ last.outcome = "clar_conditions"
           /\ th[w].response = clarification_text("conditions", <<>>)
           /\ "conditions" \notin DOMAIN context
           /\ ~MadeCall(last.calls, "generate_sql_query")
           /\ last.executed = <<>>
    /\ "conditions" \in DOMAIN context
        => (context["conditions"] # PyNone /\ truthy(context["conditions"]))

-----------------------------------------------------------------------------
(* C13 *)

\* the slot resolver fetched the table list / the column list in this call
\* and the storage layer failed: the list is empty
TableLookupFailed ==
    MadeCall(last.calls, "match_table_name") /\ last.tables = <<>>
ColumnLookupFailed == last.found = << <<>> >>

\* C13: a call of the slot resolver whose table lookup failed ends in the
\* table clarification with the context as it was; one whose column lookup
\* failed ends in the columns clarification with no columns stored; neither
\* executes a statement (a call the oracle made raise is left aside).
C13_LookupFailureClarifies ==
    /\ TableLookupFailed
        => /\ last.outcome \in {"raised", "clar_table"}
           /\ last.outcome = "clar_table"
                => (context = last.before /\ last.executed = <<>>)
    /\ ColumnLookupFailed
        => /\ last.outcome \in {"raised", "clar_columns"}
           /\ last.outcome = "clar_columns"
                => ("columns" \notin DOMAIN context /\ last.executed = <<>>)

-----------------------------------------------------------------------------
(* C14 *)

\* C14: a call whose utterance check_user_query classified 'Table_Names'
\* returns 'Available tables: ' followed by the table list fetched in that
\* call, calls nothing of the slot resolver, and leaves the context and the
\* history empty.
C14_TableListingClearsSession ==
    \A w \in DOMAIN th :
        (th[w].pc = "respond" /\ last.status = <<S_Table_Names>>)
        => /\ th[w].response = FStr("Available tables: {}", <<last.tables>>)
           /\ last.calls = <<"check_user_query", "get_available_tables">>
           /\ last.executed = <<>>
           /\ context = EmptyDict
           /\ history = <<>>

\* the listing was asked for while the context held a resolved query
C14_Witness ==
    \E w \in DOMAIN th :
        /\ th[w].pc = "respond"
        /\ last.status = <<S_Table_Names>>
        /\ DOMAIN last.before = FullKeys
        /\ last.tables = <<T_t>>

-----------------------------------------------------------------------------
(* C15 *)

\* C15: a call whose utterance the oracle classified 'Generic' makes one
\* further oracle call and nothing else, leaves the context and the history
\* exactly as they were, and what it returns is the oracle's answer.
C15_GenericLeavesSessionUntouched ==
    [][\A w \in DOMAIN th :
        (th[w].pc = "process" /\ th'[w].pc # "process"
            /\ last'.status = <<S_Generic>>)
        => /\ context' = context
           /\ history' = history
           /\ last'.calls = <<"check_user_query", "generate_content">>
           /\ th'[w].pc = "respond"
                => \E t \in GenericTexts : th'[w].response = TextVal(strip(t))]_vars

\* a generic utterance was answered while the context held a resolved query
\* and the history its records
C15_Witness ==
    \E w \in DOMAIN th :
        /\ th[w].pc = "respond"
        /\ last.outcome = "generic"
        /\ DOMAIN context = FullKeys
        /\ history # <<>>

-----------------------------------------------------------------------------
(* C16 *)

\* C16: while a request is between its process_user_query call and its hint
\* read, no step of another request changes the context, the history or
\* is_format_response.
C16_SessionOwnedByOneRequest ==
    [][\A w \in DOMAIN th :
        (th[w].pc \in {"respond", "hint"} /\ th'[w] = th[w])
        => UNCHANGED <<context, history, is_format_response>>]_vars

-----------------------------------------------------------------------------
(* C17 *)

\* C17: a storage call returns None for a connection that is not alive only
\* after as many connection attempts as connect makes.
C17_ReconnectRetriesBeforeNone ==
    last.gave_up # <<>> => last.gave_up[1] >= ConnectAttempts

-----------------------------------------------------------------------------
(* C18 *)

\* C18: when format_response has run on the result of a successful data
\* query, what it printed is the fragments of the stream in their order, and
\* what it returned, the response text of the turn, is their concatenation
\* in that order.
C18_StreamConcatenatedInOrder ==
    \A w \in DOMAIN th :
        (th[w].pc = "hint" /\ last.outcome = "results"
            /\ last.format = "formatted")
        => /\ th[w].shown = th[w].stream
           /\ th[w].response_text = TextVal(Flatten(th[w].stream))

\* a stream of two different fragments was formatted
C18_Witness ==
    \E w \in DOMAIN th :
        /\ th[w].pc = "hint"
        /\ last.outcome = "results"
        /\ last.format = "formatted"
        /\ th[w].stream = << <<"O">>, <<"K">> >>
        /\ th[w].response_text = TextVal(<<"O", "K">>)

-----------------------------------------------------------------------------
(* C19 *)

\* C19: in the interactive loop the utterance 'exit', in any letter case,
\* clears the session, closes the connection and ends the loop without an
\* oracle call; under the HTTP front end no utterance is handled as an exit:
\* none clears the session as one or closes the connection.
C19_ExitOnlyInteractive ==
    /\ (frontend = "cli" /\ last.op = "exit")
        => /\ \A w \in DOMAIN th : th[w].pc = "done"
           /\ context = EmptyDict
           /\ history = <<>>
           /\ connection = "closed"
           /\ last.calls = <<>>
    /\ frontend = "http" => (last.op # "exit" /\ connection # "closed")

-----------------------------------------------------------------------------
(* C20 *)

\* C20: in every state the context holds columns only if it holds a table,
\* and conditions only if it holds columns and a table.
C20_SlotsNested ==
    /\ "columns" \in DOMAIN context => "table" \in DOMAIN context
    /\ "conditions" \in DOMAIN context
        => ("columns" \in DOMAIN context /\ "table" \in DOMAIN context)

\* a table switch away from a fully resolved context that stopped before the
\* columns were resolved again: only the new table is held
C20_Witness ==
    /\ DOMAIN last.before = FullKeys
    /\ TableSwitched
    /\ DOMAIN context = {"table"}
    /\ context["table"] = last.matched[1]

-----------------------------------------------------------------------------
(* C21 *)

\* history h2 is history h1 with records appended
Extends(h2, h1) == Len(h1) <= Len(h2) /\ SubSeq(h2, 1, Len(h1)) = h1

\* the step is a table switch: the call matched a table other than the one
\* held, and the context now holds that table
SwitchedInStep ==
    /\ last'.matched # <<>>
    /\ last'.matched[1] # PyNone
    /\ truthy(last'.matched[1])
    /\ last'.matched[1] # Get(last'.before, "table")
    /\ "table" \in DOMAIN context'
    /\ context'["table"] = last'.matched[1]

\* C21: every step that empties a context that held something empties the
\* history too; every step that empties a history that held something
\* leaves the context empty, or holding only what a table switch wrote after
\* the wipe; and any other step leaves the history as it was or appends to
\* it a user record, followed by at most one clarification record.
C21_WipedTogetherAppendOnly ==
    [][/\ (context # EmptyDict /\ context' = EmptyDict) => history' = <<>>
       /\ (history # <<>> /\ history' = <<>>)
            => (context' = EmptyDict \/ SwitchedInStep)
       /\ history' # <<>> =>
            /\ Extends(history', history)
            /\ Len(history') <= Len(history) + 2
            /\ Len(history') > Len(history)
                 => history'[Len(history) + 1].type = "user"
            /\ Len(history') = Len(history) + 2
                 => history'[Len(history) + 2].type = "clarification"]_vars

\* a failed synthesis wiped a context that held a resolved query
C21_Witness ==
    /\ last.outcome = "sql_none"
    /\ DOMAIN last.before = FullKeys
    /\ context = EmptyDict
    /\ history = <<>>

-----------------------------------------------------------------------------
(* C22 *)

\* C22: a call in which match_table_name returns the table the context
\* already holds asks the oracle for no slot the context already holds, and
\* unless a later failure of synthesis or execution resets the session, it
\* keeps the history with the user record appended and every slot value the
\* context held.
C22_SameTableKeepsSession ==
    [][\A w \in DOMAIN th :
        (/\ th[w].pc = "process" /\ th'[w].pc # "process"
         /\ last'.matched # <<>>
         /\ "table" \in DOMAIN context
         /\ last'.matched[1] = context["table"])
        => /\ "columns" \in DOMAIN context
                => ~MadeCall(last'.calls, "match_columns")
           /\ "conditions" \in DOMAIN context
                => ~MadeCall(last'.calls, "extract_conditions")
           /\ last'.outcome \in {"results", "raised"}
                => /\ history' = Append(history,
                            [type |-> "user", value |-> th[w].user_query])
                   /\ \A key \in DOMAIN context :
                        key \in DOMAIN context' /\ context'[key] = context[key]]_vars

\* the table of a fully resolved context was matched again, with records in
\* the history, and the statement was executed without a slot being asked
C22_Witness ==
    /\ last.outcome = "results"
    /\ DOMAIN last.before = FullKeys
    /\ last.matched = <<last.before["table"]>>
    /\ last.calls = <<"check_user_query", "get_available_tables",
                      "match_table_name", "generate_sql_query",
                      "execute_sql_query">>
    /\ Len(history) >= 2
    /\ context = last.before

-----------------------------------------------------------------------------
(* C23 *)

\* C23: when the front end inspects is_format_response after a call of
\* process_user_query, the flag is set only if that call returned an
\* executed query result; a response of any other kind is never passed to
\* format_response.
C23_FlagOnlyAfterResult ==
    /\ \A w \in DOMAIN th :
        (th[w].pc = "respond" /\ is_format_response)
        => last.outcome = "results"
    /\ last.format \in {"formatted", "raised"} => last.outcome = "results"

-----------------------------------------------------------------------------
(* C24 *)

\* C24: whenever the front end is about to call format_response (it holds a
\* response and is_format_response is set), the context holds a table; and
\* format_response has never failed on the lookup of the table.
C24_FormatFindsTable ==
    /\ \A w \in DOMAIN th :
        (th[w].pc = "respond" /\ is_format_response)
        => "table" \in DOMAIN context
    /\ last.format = "raised" => "table" \in DOMAIN context

-----------------------------------------------------------------------------
(* C25 *)

\* C25: a table name that a call accepted from match_table_name and wrote to
\* the context is one of the names get_available_tables returned in that
\* call.
C25_ResolvedTableIsAvailable ==
    TableSwitched => \E i \in 1..Len(last.tables) : last.tables[i] = last.matched[1]

-----------------------------------------------------------------------------
(* C26 *)

\* C26: whenever process_user_query has returned, the context is empty or
\* holds the table, the columns and the conditions.
C26_ReturnsEmptyOrResolved ==
    \A w \in DOMAIN th :
        th[w].pc = "respond" => DOMAIN context \in {{}, FullKeys}

-----------------------------------------------------------------------------
(* C27 *)

\* C27: every statement handed to the executor starts with SELECT once
\* stripped and upper-cased, the test by which execute_query routes it to
\* fetch_results; and a call that returns an executed result returns rows,
\* never the affected-row-count message.
C27_ExecutedStatementsAreReads ==
    /\ \A i \in 1..Len(last.executed) :
        startswith(upper(strip(last.executed[i])), S_SELECT)
    /\ \A w \in DOMAIN th :
        (th[w].pc = "respond" /\ last.outcome = "results")
        => th[w].response.k = "list"

=============================================================================
